---- MODULE Spec2Model ----
(***************************************************************************)
(* Model of the role-play session client of mneme: the React hook          *)
(* useSyrinxSession, the browser WebSocket objects it creates and the      *)
(* events those sockets deliver to the handlers installed by connect.      *)
(*                                                                         *)
(* Every handler of the hook is an operator from a state record to a state *)
(* record, written statement by statement in the order of the source.  An  *)
(* action applies one handler to the current state.                        *)
(***************************************************************************)
EXTENDS Integers, Sequences, FiniteSets, TLC

(* ------------------------------ bounds --------------------------------- *)
\* number of WebSocket objects the client may construct in one run
MaxSockets == 2
\* cap on the id counter messageIdRef, that is on the transcript entries ever created
MaxIds == 2
\* longest allergy, medication or condition list of a patient record
MaxRoster == 2
\* oldest patient, in whole years
MaxAge == 2

(* ------------------------------ values --------------------------------- *)
\* texts a caller may pass to sendMessage and a peer may put in a reply
Texts == {"a", "b"}

\* An optional string (string | null | undefined) is <<>> when absent and <<v>> when present.
None == <<>>
Some(v) == <<v>>

\* JavaScript truthiness of an optional string: absent and "" are falsy.
Truthy(o) == o # None /\ o[1] # ""

\* a || b on optional strings where b is a string literal
OrElse(o, dflt) == IF Truthy(o) THEN o[1] ELSE dflt

ErrDefault == "An error occurred"
ErrConnection == "Connection error. Is Syrinx running on port 8003?"
ErrNotConnected == "Not connected to Syrinx"

\* event.data of an inbound frame, before JSON.parse.  ok = FALSE is a payload
\* on which JSON.parse (or the property access on its result) throws.
Malformed == [ok |-> FALSE, type |-> "", text |-> None, error |-> None]
Record(t, txt, err) == [ok |-> TRUE, type |-> t, text |-> txt, error |-> err]
Payloads ==
  {Malformed, Record("connected", None, None), Record("end", None, None)}
  \cup {Record("message", t, None) : t \in {Some("")} \cup {Some(x) : x \in Texts}}
  \cup {Record("error", None, e) : e \in {Some(""), Some("boom")}}

VARIABLES
  messages,               \* useState<ChatMessage[]>: the transcript
  isConnected,            \* useState(false)
  isConnecting,           \* useState(false)
  isWaitingForResponse,   \* useState(false)
  error,                  \* useState<string | null>: None is null
  wsRef,                  \* useRef<WebSocket | null>: 0 is null, else an index of sockets
  messageIdRef,           \* useRef(0)
  sockets,                \* every WebSocket constructed so far: readyState and the types of
                          \* the frames sent on its connection
  outbox,                 \* the frames the last handler handed to a socket, in order
  mounted,                \* the component that owns the hook is mounted
  closePending,           \* socket whose close event is due in the running task, 0 if none
  lastOp,                 \* history: the name of the handler that produced this state
  patientData,            \* the patient record handed to buildScenario
  scenario,               \* the descriptor buildScenario returned, None before the call
  outstanding,            \* history: turn frames transmitted since the client last handled a
                          \* message or error record of the peer
  peer                    \* the remote peer: per socket the frames it has not answered yet,
                          \* and whether it ever answered with a message of empty text

vars == <<messages, isConnected, isConnecting, isWaitingForResponse, error,
          wsRef, messageIdRef, sockets, outbox, mounted, closePending, lastOp,
          patientData, scenario, outstanding, peer>>

\* the program state as one record, the argument and result of every handler;
\* a handler starts with an empty outbox
State ==
  [messages |-> messages, isConnected |-> isConnected, isConnecting |-> isConnecting,
   isWaitingForResponse |-> isWaitingForResponse, error |-> error, wsRef |-> wsRef,
   messageIdRef |-> messageIdRef, sockets |-> sockets, outbox |-> <<>>, mounted |-> mounted]

(* --------------------------- React primitives -------------------------- *)
\* A state setter of an unmounted component is dropped by React.
setMessages(s, v) == IF s.mounted THEN [s EXCEPT !.messages = v] ELSE s
setIsConnected(s, v) == IF s.mounted THEN [s EXCEPT !.isConnected = v] ELSE s
setIsConnecting(s, v) == IF s.mounted THEN [s EXCEPT !.isConnecting = v] ELSE s
setIsWaitingForResponse(s, v) == IF s.mounted THEN [s EXCEPT !.isWaitingForResponse = v] ELSE s
setError(s, v) == IF s.mounted THEN [s EXCEPT !.error = v] ELSE s

\* generateId: increments the counter; the id `msg-${n}` is modelled by n
\* (the formatting is injective).
generateId_stuck(s) == s

generateId(s) == [s EXCEPT !.messageIdRef = @ + 1]

\* setMessages(prev => [...prev, {id: generateId(), speaker, text, timestamp}])
\* (the timestamp is not modelled: no handler reads it)
appendMessage_prepends(s, speaker, text) ==
  IF s.mounted
  THEN LET g == generateId(s)
       IN [g EXCEPT !.messages =
             <<[id |-> g.messageIdRef, speaker |-> speaker, text |-> text]>> \o @]
  ELSE s

appendMessage(s, speaker, text) ==
  IF s.mounted
  THEN LET g == generateId(s)
       IN [g EXCEPT !.messages =
             Append(@, [id |-> g.messageIdRef, speaker |-> speaker, text |-> text])]
  ELSE s

(* -------------------------- WebSocket primitives ----------------------- *)
readyStateOf(s, w) == s.sockets[w].readyState

\* new WebSocket(url): a socket in CONNECTING that has sent nothing
newWebSocket(s) ==
  [s EXCEPT !.sockets = Append(@, [readyState |-> "CONNECTING", sent |-> <<>>])]

\* ws.send(frame) on an OPEN socket transmits the frame; on a CLOSING or
\* CLOSED socket the frame is discarded.  The socket keeps the types of the
\* frames it transmitted, the outbox the whole frame.
wsSend(s, w, frame) ==
  IF readyStateOf(s, w) = "OPEN"
  THEN [s EXCEPT !.sockets[w].sent = Append(@, frame.type),
                 !.outbox = Append(@, [sock |-> w, frame |-> frame])]
  ELSE s

\* ws.close(): starts the closing handshake unless already CLOSING or CLOSED
wsClose(s, w) ==
  IF readyStateOf(s, w) \in {"CONNECTING", "OPEN"}
  THEN [s EXCEPT !.sockets[w].readyState = "CLOSING"]
  ELSE s

\* JSON.stringify({type: 'init', role: 'doctor', scenario}) and
\* JSON.stringify({type: 'message', text}).  `at` is a ghost field: the
\* transcript length the client had reached when the frame was built.
InitFrame(s) == [type |-> "init", text |-> "", at |-> Len(s.messages)]
MessageFrame(s, text) == [type |-> "message", text |-> text, at |-> Len(s.messages)]

(* ------------------------- handlers of the hook ------------------------ *)
\* connect(scenario): returns early when the held socket is OPEN; otherwise
\* resets the session and constructs a socket, which it then holds.  The
\* scenario is only copied into the init frame and is not modelled.
connect_noGuard(s) ==
  LET s1 == setIsConnecting(s, TRUE)
      s2 == setError(s1, None)
      s3 == setMessages(s2, <<>>)
      s4 == newWebSocket(s3)
  IN [s4 EXCEPT !.wsRef = Len(s4.sockets)]

connect_endsWaiting(s) ==
  IF s.wsRef # 0 /\ readyStateOf(s, s.wsRef) = "OPEN"
  THEN setIsWaitingForResponse(s, FALSE)
  ELSE LET s1 == setIsConnecting(s, TRUE)
           s2 == setError(s1, None)
           s3 == setMessages(s2, <<>>)
           s4 == newWebSocket(s3)
       IN setIsWaitingForResponse([s4 EXCEPT !.wsRef = Len(s4.sockets)], FALSE)

connect(s) ==
  IF s.wsRef # 0 /\ readyStateOf(s, s.wsRef) = "OPEN"
  THEN s
  ELSE LET s1 == setIsConnecting(s, TRUE)
           s2 == setError(s1, None)
           s3 == setMessages(s2, <<>>)
           s4 == newWebSocket(s3)
       IN [s4 EXCEPT !.wsRef = Len(s4.sockets)]

\* ws.onopen of socket w
onopen_noInit(s, w) ==
  LET s1 == setIsConnecting(s, FALSE)
      s2 == setIsConnected(s1, TRUE)
  IN setIsWaitingForResponse(s2, TRUE)

onopen_clearsError(s, w) ==
  LET s1 == setIsConnecting(s, FALSE)
      s2 == setIsConnected(s1, TRUE)
      s3 == setIsWaitingForResponse(s2, TRUE)
  IN wsSend(setError(s3, None), w, InitFrame(s3))

onopen(s, w) ==
  LET s1 == setIsConnecting(s, FALSE)
      s2 == setIsConnected(s1, TRUE)
      s3 == setIsWaitingForResponse(s2, TRUE)
  IN wsSend(s3, w, InitFrame(s3))

\* ws.onmessage of socket w with event.data = d
onmessage_errorKeepsWaiting(s, w, d) ==
  IF ~d.ok
  THEN s
  ELSE IF d.type = "message" /\ Truthy(d.text)
  THEN setIsWaitingForResponse(appendMessage(s, "parent", d.text[1]), FALSE)
  ELSE IF d.type = "error"
  THEN setError(s, Some(OrElse(d.error, ErrDefault)))
  ELSE IF d.type = "end"
  THEN setIsConnected(s, FALSE)
  ELSE s

onmessage_surfacesMalformed(s, w, d) ==
  IF ~d.ok
  THEN setError(s, Some(ErrDefault))
  ELSE IF d.type = "message" /\ Truthy(d.text)
  THEN setIsWaitingForResponse(appendMessage(s, "parent", d.text[1]), FALSE)
  ELSE IF d.type = "error"
  THEN setIsWaitingForResponse(setError(s, Some(OrElse(d.error, ErrDefault))), FALSE)
  ELSE IF d.type = "end"
  THEN setIsConnected(s, FALSE)
  ELSE s

onmessage_dropsLate(s, w, d) ==
  IF ~d.ok
  THEN s
  ELSE IF d.type = "message" /\ Truthy(d.text)
  THEN IF s.isWaitingForResponse
       THEN setIsWaitingForResponse(appendMessage(s, "parent", d.text[1]), FALSE)
       ELSE s
  ELSE IF d.type = "error"
  THEN setIsWaitingForResponse(setError(s, Some(OrElse(d.error, ErrDefault))), FALSE)
  ELSE IF d.type = "end"
  THEN setIsConnected(s, FALSE)
  ELSE s

onmessage(s, w, d) ==
  IF ~d.ok
  THEN s
  ELSE IF d.type = "message" /\ Truthy(d.text)
  THEN setIsWaitingForResponse(appendMessage(s, "parent", d.text[1]), FALSE)
  ELSE IF d.type = "error"
  THEN setIsWaitingForResponse(setError(s, Some(OrElse(d.error, ErrDefault))), FALSE)
  ELSE IF d.type = "end"
  THEN setIsConnected(s, FALSE)
  ELSE s

\* ws.onerror of socket w
onerror_keepsWaiting(s, w) ==
  LET s1 == setError(s, Some(ErrConnection))
      s2 == setIsConnecting(s1, FALSE)
  IN setIsConnected(s2, FALSE)

onerror(s, w) ==
  LET s1 == setError(s, Some(ErrConnection))
      s2 == setIsConnecting(s1, FALSE)
      s3 == setIsConnected(s2, FALSE)
  IN setIsWaitingForResponse(s3, FALSE)

\* ws.onclose of socket w
onclose_keepsConnecting(s, w) ==
  LET s1 == setIsConnected(s, FALSE)
  IN setIsWaitingForResponse(s1, FALSE)

onclose(s, w) ==
  LET s1 == setIsConnected(s, FALSE)
      s2 == setIsConnecting(s1, FALSE)
  IN setIsWaitingForResponse(s2, FALSE)

\* sendMessage(text)
sendMessage_sendsFirst(s, text) ==
  IF s.wsRef = 0 \/ readyStateOf(s, s.wsRef) # "OPEN"
  THEN setError(s, Some(ErrNotConnected))
  ELSE LET s1 == wsSend(s, s.wsRef, MessageFrame(s, text))
           s2 == appendMessage(s1, "doctor", text)
       IN setIsWaitingForResponse(s2, TRUE)

sendMessage_forgetsToSend(s, text) ==
  IF s.wsRef = 0 \/ readyStateOf(s, s.wsRef) # "OPEN"
  THEN setError(s, Some(ErrNotConnected))
  ELSE LET s1 == appendMessage(s, "doctor", text)
       IN setIsWaitingForResponse(s1, TRUE)

sendMessage_silentWhenClosed(s, text) ==
  IF s.wsRef = 0 \/ readyStateOf(s, s.wsRef) # "OPEN"
  THEN s
  ELSE LET s1 == appendMessage(s, "doctor", text)
           s2 == setIsWaitingForResponse(s1, TRUE)
       IN wsSend(s2, s2.wsRef, MessageFrame(s2, text))

sendMessage(s, text) ==
  IF s.wsRef = 0 \/ readyStateOf(s, s.wsRef) # "OPEN"
  THEN setError(s, Some(ErrNotConnected))
  ELSE LET s1 == appendMessage(s, "doctor", text)
           s2 == setIsWaitingForResponse(s1, TRUE)
       IN wsSend(s2, s2.wsRef, MessageFrame(s2, text))

\* disconnect()
disconnect_keepsHandle(s) ==
  LET s1 == IF s.wsRef # 0 THEN wsClose(s, s.wsRef) ELSE s
      s2 == setIsConnected(s1, FALSE)
  IN setIsWaitingForResponse(s2, FALSE)

disconnect(s) ==
  LET s1 == IF s.wsRef # 0
            THEN [wsClose(s, s.wsRef) EXCEPT !.wsRef = 0]
            ELSE s
      s2 == setIsConnected(s1, FALSE)
  IN setIsWaitingForResponse(s2, FALSE)

(* ----------------------- handlers of RolePlayModal ---------------------- *)
\* inputValue is a sequence of characters; String.prototype.trim removes the
\* white space at both ends
RECURSIVE trimStart(_)
trimStart(cs) == IF cs # <<>> /\ Head(cs) = " " THEN trimStart(Tail(cs)) ELSE cs
RECURSIVE trimEnd(_)
trimEnd(cs) ==
  IF cs # <<>> /\ cs[Len(cs)] = " " THEN trimEnd(SubSeq(cs, 1, Len(cs) - 1)) ELSE cs
trim(cs) == trimEnd(trimStart(cs))

\* what the user may have typed: at most one character other than a blank,
\* so that the trimmed input is empty or one of Texts
Inputs == {<<>>, <<" ">>, <<"a">>, <<" ", "b">>, <<"a", " ">>, <<" ", "b", " ">>}

\* handleSubmit with inputValue = cs (the reset of inputValue is not modelled:
\* the next submit draws a new input)
handleSubmit_noWaitingGuard(s, cs) ==
  IF trim(cs) = <<>> \/ ~s.isConnected
  THEN s
  ELSE sendMessage(s, trim(cs)[1])

handleSubmit(s, cs) ==
  IF trim(cs) = <<>> \/ s.isWaitingForResponse \/ ~s.isConnected
  THEN s
  ELSE sendMessage(s, trim(cs)[1])

\* clearError()
clearError_endsWaiting(s) == setIsWaitingForResponse(setError(s, None), FALSE)

clearError(s) == setError(s, None)

\* the cleanup of the hook's effect, run when the component unmounts
cleanup(s) ==
  LET s1 == IF s.wsRef # 0 THEN wsClose(s, s.wsRef) ELSE s
  IN [s1 EXCEPT !.mounted = FALSE]

(* --------------------------- scenario builder -------------------------- *)
\* A template string is modelled by the tuple of the parts it interpolates.

\* the inputs: an allergy, a medication and a condition entry
Allergies ==
  {[display_name |-> "", reactions |-> <<>>],
   [display_name |-> "peanut", reactions |-> <<>>],
   [display_name |-> "latex", reactions |-> <<"hives", "itching">>]}
Medications ==
  {[display_name |-> "amoxicillin", status |-> "active", dose_quantity |-> None,
    dose_unit |-> None, frequency |-> None],
   [display_name |-> "ibuprofen", status |-> "active", dose_quantity |-> Some("5"),
    dose_unit |-> Some("mL"), frequency |-> Some("daily")],
   [display_name |-> "cetirizine", status |-> "stopped", dose_quantity |-> Some("5"),
    dose_unit |-> None, frequency |-> Some("daily")]}
Conditions ==
  {[display_name |-> "asthma", clinical_status |-> "active"],
   [display_name |-> "eczema", clinical_status |-> "resolved"]}

\* all lists over S of length at most n
SeqsUpTo(S, n) == UNION {[1..k -> S] : k \in 0..n}

\* now - date_of_birth in whole days, for an infant
DaysSinceBirth == {0, 29, 30, 31, 59, 60, 364}

\* patient: age_years as the backend reports it, with a date of birth that
\* agrees with it; sex_at_birth is optional
PatientRecords ==
  {[age_years |-> 0, days |-> d, sex_at_birth |-> x, given_names |-> <<"Ada", "May">>,
    family_name |-> "Roe"] : d \in DaysSinceBirth, x \in {None, Some("female")}}
  \cup {[age_years |-> y, days |-> 365 * y, sex_at_birth |-> x, given_names |-> <<"Ada", "May">>,
          family_name |-> "Roe"] : y \in 1..MaxAge, x \in {None, Some("female")}}

PatientDetails ==
  [patient : PatientRecords,
   allergies : SeqsUpTo(Allergies, MaxRoster),
   medications : SeqsUpTo(Medications, MaxRoster),
   conditions : SeqsUpTo(Conditions, MaxRoster)]

\* array.map(f)
Map(f(_), xs) == [i \in 1..Len(xs) |-> f(xs[i])]

\* `${n} month${n !== 1 ? 's' : ''}` and the same for year
Plural(n, unit) == <<n, IF n # 1 THEN unit \o "s" ELSE unit>>

\* the age string: months = Math.floor(elapsed ms / (30 days in ms)) for an infant
ageString_yearsOnly(patient) == Plural(patient.age_years, "year")

ageString(patient) ==
  IF patient.age_years < 1
  THEN Plural(patient.days \div 30, "month")
  ELSE Plural(patient.age_years, "year")

\* allergies.filter(a => a.display_name).map(...)
AllergyKept(a) == a.display_name # ""
AllergyString(a) ==
  IF a.reactions # <<>> /\ a.reactions[1] # ""
  THEN <<a.display_name, "(", a.reactions[1], ")">>
  ELSE <<a.display_name>>
activeAllergies(allergies) == Map(AllergyString, SelectSeq(allergies, AllergyKept))

\* medications.filter(m => m.status === 'active').map(...)
MedicationKept(m) == m.status = "active"
MedicationString(m) ==
  IF Truthy(m.dose_quantity) /\ Truthy(m.frequency)
  THEN <<m.display_name, m.dose_quantity[1], OrElse(m.dose_unit, ""), m.frequency[1]>>
  ELSE <<m.display_name>>
activeMedications_anyStatus(medications) == Map(MedicationString, medications)

activeMedications(medications) == Map(MedicationString, SelectSeq(medications, MedicationKept))

\* conditions.filter(c => c.clinical_status === 'active').map(c => c.display_name)
ConditionKept(c) == c.clinical_status = "active"
ConditionString(c) == <<c.display_name>>
activeConditions(conditions) == Map(ConditionString, SelectSeq(conditions, ConditionKept))

\* buildScenario(patientData, chiefComplaint, parentPersona)
buildScenario_emptyRosters(pd, chiefComplaint, parentPersona) ==
  LET fullName == pd.patient.given_names \o <<pd.patient.family_name>>
      age == ageString(pd.patient)
  IN [description |-> <<age, OrElse(pd.patient.sex_at_birth, "child"), fullName, chiefComplaint>>,
      patient |-> [name |-> fullName,
                   age |-> age,
                   sex |-> OrElse(pd.patient.sex_at_birth, "unknown"),
                   allergies |-> activeAllergies(pd.allergies),
                   medications |-> activeMedications(pd.medications),
                   chronic_conditions |-> activeConditions(pd.conditions)],
      parent |-> [style |-> parentPersona],
      chief_complaint |-> chiefComplaint]

buildScenario(pd, chiefComplaint, parentPersona) ==
  LET fullName == pd.patient.given_names \o <<pd.patient.family_name>>
      age == ageString(pd.patient)
      allergies == activeAllergies(pd.allergies)
      medications == activeMedications(pd.medications)
      conditions == activeConditions(pd.conditions)
  IN [description |-> <<age, OrElse(pd.patient.sex_at_birth, "child"), fullName, chiefComplaint>>,
      patient |-> [name |-> fullName,
                   age |-> age,
                   sex |-> OrElse(pd.patient.sex_at_birth, "unknown"),
                   allergies |-> IF Len(allergies) > 0 THEN allergies ELSE <<<<"None known">>>>,
                   medications |-> IF Len(medications) > 0 THEN medications ELSE <<<<"None">>>>,
                   chronic_conditions |-> IF Len(conditions) > 0 THEN conditions
                                          ELSE <<<<"None">>>>],
      parent |-> [style |-> parentPersona],
      chief_complaint |-> chiefComplaint]

(* ------------------------------ actions -------------------------------- *)
\* the variables of the session client after a handler returned state s
Frame(s, name, pending) ==
  /\ messages' = s.messages
  /\ isConnected' = s.isConnected
  /\ isConnecting' = s.isConnecting
  /\ isWaitingForResponse' = s.isWaitingForResponse
  /\ error' = s.error
  /\ wsRef' = s.wsRef
  /\ messageIdRef' = s.messageIdRef
  /\ sockets' = s.sockets
  /\ outbox' = s.outbox
  /\ mounted' = s.mounted
  /\ closePending' = pending
  /\ lastOp' = name

\* one handler ran to completion: s is its result
Step(s, name, pending) ==
  /\ Frame(s, name, pending)
  /\ UNCHANGED <<patientData, scenario, outstanding, peer>>

\* the browser sets readyState before it dispatches the open, error or close
\* event; a CLOSED socket has no connection left, and its record of frames
\* sent is dropped with it
WithReadyState(s, w, rs) ==
  [s EXCEPT !.sockets[w] = [readyState |-> rs,
                            sent |-> IF rs = "CLOSED" THEN <<>> ELSE @.sent]]

\* the session client right after the hook's first render
InitSession ==
  /\ messages = <<>>
  /\ isConnected = FALSE
  /\ isConnecting = FALSE
  /\ isWaitingForResponse = FALSE
  /\ error = None
  /\ wsRef = 0
  /\ messageIdRef = 0
  /\ sockets = <<>>
  /\ outbox = <<>>
  /\ mounted = TRUE
  /\ closePending = 0
  /\ lastOp = "init"

\* the patient whose chart the role-play was started from
SamplePatient ==
  [patient |-> [age_years |-> 1, days |-> 365, sex_at_birth |-> None,
                given_names |-> <<"Ada", "May">>, family_name |-> "Roe"],
   allergies |-> <<>>, medications |-> <<>>, conditions |-> <<>>]

\* no turn sent yet, and a peer that owes no answer
InitPeer ==
  /\ outstanding = 0
  /\ peer = [owed |-> <<>>, blank |-> FALSE]

Init ==
  /\ InitSession
  /\ patientData = SamplePatient
  /\ scenario = None
  /\ InitPeer

\* the caller may invoke an operation between two tasks of a mounted component
Callable == mounted /\ closePending = 0

Connect ==
  /\ Callable
  /\ Len(sockets) < MaxSockets \/ connect(State) = State
  /\ Step(connect(State), "connect", 0)

SendMessageOf(text) ==
  /\ Callable
  /\ messageIdRef < MaxIds \/ sendMessage(State, text).messageIdRef = messageIdRef
  /\ Step(sendMessage(State, text), "sendMessage", 0)

SendMessage == \E text \in Texts : SendMessageOf(text)

Disconnect ==
  /\ Callable
  /\ Step(disconnect(State), "disconnect", 0)

ClearError ==
  /\ Callable
  /\ Step(clearError(State), "clearError", 0)

\* the component unmounts: the cleanup of the hook's effect, then the cleanup
\* of the modal's effect, which calls disconnect
Unmount ==
  /\ Callable
  /\ Step(disconnect(cleanup(State)), "unmount", 0)

\* the handshake of socket w completes: the open event
WsOpenOn(w) ==
  /\ closePending = 0
  /\ sockets[w].readyState = "CONNECTING"
  /\ Step(onopen(WithReadyState(State, w, "OPEN"), w), "onopen", 0)

WsOpen == \E w \in 1..Len(sockets) : WsOpenOn(w)

\* a frame with payload d arrives on socket w: the message event, which the
\* browser dispatches only while the socket is OPEN
WsMessageOn(w, d) ==
  /\ closePending = 0
  /\ sockets[w].readyState = "OPEN"
  /\ messageIdRef < MaxIds \/ onmessage(State, w, d).messageIdRef = messageIdRef
  /\ Step(onmessage(State, w, d), "onmessage", 0)

WsMessage == \E w \in 1..Len(sockets), d \in Payloads : WsMessageOn(w, d)

\* the connection of socket w fails: readyState becomes CLOSED and the error
\* event is fired; the close event follows in the same task
WsErrorOn(w) ==
  /\ closePending = 0
  /\ sockets[w].readyState \in {"CONNECTING", "OPEN", "CLOSING"}
  /\ Step(onerror(WithReadyState(State, w, "CLOSED"), w), "onerror", w)

WsError == \E w \in 1..Len(sockets) : WsErrorOn(w)

\* the close event of socket w: after its error event, or a clean close
WsCloseOn(w) ==
  /\ \/ closePending = w
     \/ closePending = 0 /\ sockets[w].readyState \in {"OPEN", "CLOSING"}
  /\ Step(onclose(WithReadyState(State, w, "CLOSED"), w), "onclose", 0)

WsClose == \E w \in 1..Len(sockets) : WsCloseOn(w)

\* the session client while its component is mounted
Next ==
  \/ Connect
  \/ SendMessage
  \/ Disconnect
  \/ ClearError
  \/ WsOpen
  \/ WsMessage
  \/ WsError
  \/ WsClose

Spec == Init /\ [][Next]_vars

\* the session client with the teardown of its component
NextTeardown ==
  \/ Next
  \/ Unmount

SpecTeardown == Init /\ [][NextTeardown]_vars

\* the scenario builder alone: any patient record, and the call of
\* buildScenario made by the modal's mount effect
InitScenario ==
  /\ InitSession
  /\ patientData \in PatientDetails
  /\ scenario = None
  /\ InitPeer

BuildScenario ==
  /\ scenario = None
  /\ scenario' = Some(buildScenario(patientData, "fever", "anxious"))
  /\ UNCHANGED <<messages, isConnected, isConnecting, isWaitingForResponse, error, wsRef,
                 messageIdRef, sockets, outbox, mounted, closePending, lastOp, patientData,
                 outstanding, peer>>

NextScenario == BuildScenario

SpecScenario == InitScenario /\ [][NextScenario]_vars

(* ----------------- the session client under RolePlayModal -------------- *)
\* the payload is a message or error record of the peer
IsAnswer(d) == d.ok /\ d.type \in {"message", "error"}

\* the user submits the form with input cs
SubmitOf(cs) ==
  /\ Callable
  /\ messageIdRef < MaxIds \/ handleSubmit(State, cs).messageIdRef = messageIdRef
  /\ LET r == handleSubmit(State, cs)
     IN /\ Frame(r, "handleSubmit", 0)
        /\ outstanding' = outstanding + Len(r.outbox)
  /\ UNCHANGED <<patientData, scenario, peer>>

Submit == \E cs \in Inputs : SubmitOf(cs)

\* the message event, with the count of unanswered turns reset by an answer
WsMessageUI ==
  \E w \in 1..Len(sockets), d \in Payloads :
    /\ closePending = 0
    /\ sockets[w].readyState = "OPEN"
    /\ messageIdRef < MaxIds \/ onmessage(State, w, d).messageIdRef = messageIdRef
    /\ Frame(onmessage(State, w, d), "onmessage", 0)
    /\ outstanding' = IF IsAnswer(d) THEN 0 ELSE outstanding
    /\ UNCHANGED <<patientData, scenario, peer>>

\* the modal's effect calls connect when it runs, and disconnect when it is
\* cleaned up or the session is ended: connect is never called while the
\* client still holds the socket of an earlier call
Mount ==
  /\ wsRef = 0
  /\ Connect

\* the session client when turns reach sendMessage only through handleSubmit
NextUI ==
  \/ Mount
  \/ Submit
  \/ Disconnect
  \/ ClearError
  \/ WsOpen
  \/ WsMessageUI
  \/ WsError
  \/ WsClose

SpecUI == Init /\ [][NextUI]_vars

(* -------------- the session client with an answering peer -------------- *)
\* the frames the peer has not answered, after a handler returned state s
Owed(s) ==
  [w \in 1..Len(s.sockets) |->
     (IF w <= Len(peer.owed) THEN peer.owed[w] ELSE 0)
       + Cardinality({i \in 1..Len(s.outbox) : s.outbox[i].sock = w})]

\* a handler ran and the peer took note of the frames it was sent
StepLive(s, name) ==
  /\ Frame(s, name, 0)
  /\ peer' = [peer EXCEPT !.owed = Owed(s)]
  /\ UNCHANGED <<patientData, scenario, outstanding>>

ConnectLive ==
  /\ Callable
  /\ Len(sockets) < MaxSockets \/ connect(State) = State
  /\ StepLive(connect(State), "connect")

\* in this specification one text stands for every turn and every reply
SendMessageLive ==
  \E text \in {"a"} :
    /\ Callable
    /\ messageIdRef < MaxIds \/ sendMessage(State, text).messageIdRef = messageIdRef
    /\ StepLive(sendMessage(State, text), "sendMessage")

ClearErrorLive ==
  /\ Callable
  /\ StepLive(clearError(State), "clearError")

WsOpenLive ==
  \E w \in 1..Len(sockets) :
    /\ sockets[w].readyState = "CONNECTING"
    /\ StepLive(onopen(WithReadyState(State, w, "OPEN"), w), "onopen")

\* the answers of the peer: a message, a message of empty text, an error
Answers ==
  {Record("message", Some(""), None), Record("message", Some("a"), None),
   Record("error", None, Some("boom"))}

\* the peer answers a frame it received on socket w with a message or error
\* record, and the client handles it
PeerAnswer ==
  \E w \in 1..Len(sockets), d \in Answers :
    /\ sockets[w].readyState = "OPEN"
    /\ peer.owed[w] > 0
    /\ messageIdRef < MaxIds \/ onmessage(State, w, d).messageIdRef = messageIdRef
    /\ Frame(onmessage(State, w, d), "onmessage", 0)
    /\ peer' = [owed |-> [peer.owed EXCEPT ![w] = @ - 1],
                blank |-> peer.blank \/ (d.type = "message" /\ ~Truthy(d.text))]
    /\ UNCHANGED <<patientData, scenario, outstanding>>

\* the peer sends a record that answers nothing: connected, end, or a payload
\* that does not decode
PeerNoise ==
  \E w \in 1..Len(sockets), d \in {p \in Payloads : ~IsAnswer(p)} :
    /\ sockets[w].readyState = "OPEN"
    /\ StepLive(onmessage(State, w, d), "onmessage")

\* the transport stays open: no error event, no close event, no disconnect
NextLive ==
  \/ ConnectLive
  \/ SendMessageLive
  \/ ClearErrorLive
  \/ WsOpenLive
  \/ PeerAnswer
  \/ PeerNoise

\* the peer eventually answers every frame it was sent
SpecLive == Init /\ [][NextLive]_vars /\ WF_vars(PeerAnswer)

(* --------------------------- shared vocabulary ------------------------- *)
\* the client holds a socket and that socket is OPEN
HeldOpen == wsRef # 0 /\ sockets[wsRef].readyState = "OPEN"

\* the step is a run of the named handler
Ran(name) == lastOp' = name

\* the step is onmessage of a mounted client on payload d
Received(d) == mounted /\ lastOp' = "onmessage" /\ \E w \in 1..Len(sockets) : WsMessageOn(w, d)

\* a message event can be dispatched to the mounted client on socket w
Deliverable(w) == mounted /\ sockets[w].readyState = "OPEN"

\* an error event can be dispatched on socket w, a close event can
ErrorDue(w) == closePending = 0 /\ sockets[w].readyState \in {"CONNECTING", "OPEN", "CLOSING"}
CloseDue(w) ==
  \/ closePending = w
  \/ closePending = 0 /\ sockets[w].readyState \in {"OPEN", "CLOSING"}

\* the sockets that have, or are establishing, a connection
Live == {w \in 1..Len(sockets) : sockets[w].readyState \in {"CONNECTING", "OPEN"}}

\* an open event can be dispatched on socket w
OpenDue(w) == closePending = 0 /\ sockets[w].readyState = "CONNECTING"

\* handler result r shows the same transcript, error and flags as the current state
SameSession(r) ==
  /\ r.messages = messages /\ r.error = error
  /\ r.isConnected = isConnected /\ r.isConnecting = isConnecting
  /\ r.isWaitingForResponse = isWaitingForResponse

\* the step hands no frame to any socket
NothingSent == outbox' = <<>> /\ \A w \in 1..Len(sockets) : sockets'[w].sent = sockets[w].sent

TypeOK ==
  /\ isConnected \in BOOLEAN /\ isConnecting \in BOOLEAN /\ isWaitingForResponse \in BOOLEAN
  /\ wsRef \in 0..Len(sockets)
  /\ Len(sockets) <= MaxSockets
  /\ messageIdRef <= MaxIds /\ Len(messages) <= messageIdRef

(* ============================== claims ================================= *)

\* C1: calling sendMessage while isWaitingForResponse is true is a no-op: no
\* outbound {type:"message"} frame is transmitted and the transcript is unchanged.
C1_SendWhileWaitingIsNoOp ==
  [][(Ran("sendMessage") /\ isWaitingForResponse) => (NothingSent /\ messages' = messages)]_vars

\* C2: processing an inbound {type:"end"} record leaves isConnected false, and
\* a sendMessage call made while isConnected is false appends nothing and
\* transmits nothing, even when the held socket is still OPEN.
C2_NoSendAfterEnd ==
  [][/\ Received(Record("end", None, None)) => ~isConnected'
     /\ (Ran("sendMessage") /\ ~isConnected /\ HeldOpen) => (NothingSent /\ messages' = messages)]_vars

\* C3: each of the three triggers of the closed state (the close event, the
\* peer's end record, disconnect) leaves isConnected and isWaitingForResponse
\* both false.
C3_ClosedClearsFlags ==
  [][(mounted /\ (Ran("onclose") \/ Ran("disconnect") \/ Received(Record("end", None, None))))
       => (~isConnected' /\ ~isWaitingForResponse')]_vars

\* C4 (as stated): an inbound {type:"error", error:e} record, in any state in
\* which it can be delivered, sets the error value to e, clears
\* isWaitingForResponse and leaves the transcript and isConnected unchanged.
C4_ErrorBecomesE ==
  \A w \in 1..Len(sockets), e \in {"", "boom"} :
    Deliverable(w) =>
      LET r == onmessage(State, w, Record("error", None, Some(e)))
      IN /\ r.error = Some(e)
         /\ ~r.isWaitingForResponse
         /\ r.messages = messages
         /\ r.isConnected = isConnected

\* C4 (amended): an inbound {type:"error", error:e} record, in any state in
\* which it can be delivered, sets the error value to e when e is a non-empty
\* string and to "An error occurred" when e is the empty string, replacing any
\* prior error; it clears isWaitingForResponse and leaves the transcript and
\* isConnected unchanged.
C4_ErrorSurfaced ==
  \A w \in 1..Len(sockets), e \in {"", "boom"} :
    Deliverable(w) =>
      LET r == onmessage(State, w, Record("error", None, Some(e)))
      IN /\ r.error = IF e = "" THEN <<"An error occurred">> ELSE <<e>>
         /\ ~r.isWaitingForResponse
         /\ r.messages = messages
         /\ r.isConnected = isConnected

\* the peer's error record was surfaced on an open session: the transcript is
\* still empty and no reply is awaited any more
C4_Witness ==
  /\ lastOp = "onmessage" /\ error = <<"boom">>
  /\ ~isWaitingForResponse /\ isConnected /\ HeldOpen /\ messages = <<>>
  /\ Len(sockets) = 1

\* C5: disconnect is idempotent and total: in every state in which the
\* caller can invoke it, it yields a state with isConnected and
\* isWaitingForResponse false and no socket held, and a second call applied
\* to that state yields the same state.
C5_DisconnectIdempotent ==
  Callable =>
    LET once == disconnect(State)
        twice == disconnect(once)
    IN /\ ~once.isConnected /\ ~once.isWaitingForResponse /\ once.wsRef = 0
       /\ twice = once

\* disconnect ran on a session that had been opened and released its socket
C5_Witness ==
  /\ lastOp = "disconnect" /\ Len(sockets) = 1 /\ sockets[1].readyState = "CLOSING"
  /\ sockets[1].sent # <<>>
  /\ wsRef = 0 /\ ~isConnected /\ ~isWaitingForResponse

\* C6: after disconnect, or after the component is unmounted, no socket the
\* client ever constructed is CONNECTING or OPEN.
C6_NoLeakedConnections ==
  [][(Ran("disconnect") \/ Ran("unmount"))
       => \A w \in 1..Len(sockets') : sockets'[w].readyState \notin {"CONNECTING", "OPEN"}]_vars

\* C7: connect while the held socket is OPEN is a no-op: no socket is
\* constructed and transcript, error and the three flags are unchanged.
C7_ConnectWhileOpenIsNoOp ==
  [][(Ran("connect") /\ HeldOpen)
       => /\ sockets' = sockets /\ wsRef' = wsRef
          /\ messages' = messages /\ error' = error
          /\ isConnected' = isConnected /\ isConnecting' = isConnecting
          /\ isWaitingForResponse' = isWaitingForResponse]_vars

\* connect returned early: the held socket is still OPEN, transcript and error are kept
C7_Witness ==
  /\ lastOp = "connect" /\ HeldOpen
  /\ Len(messages) > 0 /\ error # None /\ isConnected

\* C8: connect on a closed or failed session (not connected, not connecting)
\* starts a fresh session: a socket is constructed, isConnecting becomes true,
\* transcript and error are discarded.
C8_ConnectAfterClosedStartsFresh ==
  [][(Ran("connect") /\ ~isConnected /\ ~isConnecting)
       => /\ Len(sockets') = Len(sockets) + 1
          /\ wsRef' = Len(sockets')
          /\ sockets'[wsRef'].readyState = "CONNECTING"
          /\ isConnecting'
          /\ messages' = <<>> /\ error' = None]_vars

\* C9 (as stated): every inbound record of type "message", whatever its text,
\* in any state in which it can be delivered, appends exactly one counterpart
\* entry carrying that text at the end of the transcript and clears
\* isWaitingForResponse.
C9_EveryMessageAppended ==
  \A w \in 1..Len(sockets), t \in Texts \cup {""} :
    Deliverable(w) =>
      LET r == onmessage(State, w, Record("message", Some(t), None))
      IN /\ r.messages = Append(messages, [id |-> r.messageIdRef, speaker |-> "parent", text |-> t])
         /\ ~r.isWaitingForResponse

\* C9 (amended): every inbound record of type "message" with a non-empty text,
\* awaited or not, appends exactly one counterpart entry carrying that text at
\* the end of the transcript and clears isWaitingForResponse, with no
\* reordering and no de-duplication; a message record whose text is empty
\* changes neither the transcript nor isWaitingForResponse.
C9_NonEmptyMessageAppended ==
  \A w \in 1..Len(sockets), t \in Texts \cup {""} :
    Deliverable(w) =>
      LET r == onmessage(State, w, Record("message", Some(t), None))
      IN IF t # ""
         THEN /\ r.messages = Append(messages, [id |-> messageIdRef + 1, speaker |-> "parent",
                                                text |-> t])
              /\ ~r.isWaitingForResponse
         ELSE /\ r.messages = messages
              /\ r.isWaitingForResponse = isWaitingForResponse

\* a duplicate reply, arriving when no reply was awaited, was appended after the first
C9_Witness ==
  /\ lastOp = "onmessage" /\ Len(sockets) = 1 /\ HeldOpen
  /\ messages = <<[id |-> 1, speaker |-> "parent", text |-> "b"],
                  [id |-> 2, speaker |-> "parent", text |-> "b"]>>
  /\ ~isWaitingForResponse

\* C10: sendMessage(text) called while the held socket is OPEN and no reply is
\* awaited appends exactly one doctor entry with that text as the last
\* transcript entry before the frame is built, sets isWaitingForResponse and
\* transmits exactly one {type:"message", text} frame, on the held socket.
C10_SendAppendsThenTransmits ==
  \A text \in Texts :
    (Callable /\ HeldOpen /\ ~isWaitingForResponse) =>
      LET r == sendMessage(State, text)
      IN /\ r.messages = Append(messages, [id |-> messageIdRef + 1, speaker |-> "doctor",
                                           text |-> text])
         /\ r.isWaitingForResponse
         /\ r.outbox = <<[sock |-> wsRef,
                          frame |-> [type |-> "message", text |-> text,
                                     at |-> Len(messages) + 1]]>>
         /\ r.sockets = [sockets EXCEPT ![wsRef].sent = Append(@, "message")]

\* the caller answered the counterpart's opening turn
C10_Witness ==
  /\ lastOp = "sendMessage" /\ Len(sockets) = 1 /\ HeldOpen
  /\ messages = <<[id |-> 1, speaker |-> "parent", text |-> "a"],
                  [id |-> 2, speaker |-> "doctor", text |-> "b"]>>
  /\ isWaitingForResponse
  /\ outbox = <<[sock |-> 1, frame |-> [type |-> "message", text |-> "b", at |-> 2]]>>
  /\ sockets[1].sent = <<"init", "message">>

\* C11: the peer owns the first turn: when an open event has just been
\* handled the client awaits a reply, and the first entry of the transcript,
\* whenever there is one, is a counterpart (parent) entry, never a caller
\* (doctor) entry.
C11_PeerOwnsFirstTurn ==
  /\ (mounted /\ lastOp = "onopen") => isWaitingForResponse
  /\ messages # <<>> => messages[1].speaker = "parent"

\* C12: on each socket the init frame is sent exactly once, by the handler of
\* its open event and by no other handler, before every message frame on that
\* socket; a socket that has not opened has sent nothing.
C12_InitOncePerTransport ==
  /\ \A w \in 1..Len(sockets) :
       LET sent == sockets[w].sent
       IN /\ sockets[w].readyState = "CONNECTING" => sent = <<>>
          /\ sockets[w].readyState = "OPEN" => sent # <<>>
          /\ sent # <<>> => /\ sent[1] = "init"
                            /\ \A i \in 2..Len(sent) : sent[i] = "message"
  /\ lastOp = "onopen" => Len(outbox) = 1 /\ outbox[1].frame.type = "init"
  /\ lastOp # "onopen" => \A i \in 1..Len(outbox) : outbox[i].frame.type # "init"

\* the held socket sent init and then a turn, while an abandoned socket that
\* never opened has sent nothing
C12_Witness ==
  /\ Len(sockets) = 2 /\ wsRef = 2
  /\ sockets[1].readyState = "CONNECTING" /\ sockets[1].sent = <<>>
  /\ sockets[2].readyState = "OPEN" /\ sockets[2].sent = <<"init", "message">>

\* C13: a payload that fails to decode, and the informational
\* {type:"connected"} record, change nothing: in every state in which a
\* message event can be dispatched, onmessage returns the state unchanged
\* (transcript, error and the three flags included).
C13_NoiseChangesNothing ==
  \A w \in 1..Len(sockets) :
    sockets[w].readyState = "OPEN" =>
      /\ onmessage(State, w, Malformed) = State
      /\ onmessage(State, w, Record("connected", None, None)) = State

\* a frame was handled on a freshly opened session and left it as the open
\* event had left it
C13_Witness ==
  /\ lastOp = "onmessage" /\ Len(sockets) = 1 /\ HeldOpen
  /\ messages = <<>> /\ error = None
  /\ isConnected /\ ~isConnecting /\ isWaitingForResponse
  /\ sockets[1].sent = <<"init">>

\* C14: an error event of a socket, while connecting or later, sets the error
\* value to a non-empty text, leaves isConnecting, isConnected and
\* isWaitingForResponse all false and leaves the transcript unchanged.
C14_TransportErrorFails ==
  \A w \in 1..Len(sockets) :
    (mounted /\ ErrorDue(w)) =>
      LET r == onerror(WithReadyState(State, w, "CLOSED"), w)
      IN /\ r.error # None /\ r.error[1] # ""
         /\ ~r.isConnecting /\ ~r.isConnected /\ ~r.isWaitingForResponse
         /\ r.messages = messages

\* the connection failed while a reply to the caller's turn was awaited
C14_Witness ==
  /\ lastOp = "onerror" /\ closePending = 1
  /\ error = Some(ErrConnection)
  /\ ~isConnecting /\ ~isConnected /\ ~isWaitingForResponse
  /\ Len(messages) = 2 /\ messages[2].speaker = "doctor"

\* C15: a close event of a socket leaves isConnected, isConnecting and
\* isWaitingForResponse all false, and leaves the error value and the
\* transcript as they were.
C15_CloseKeepsError ==
  \A w \in 1..Len(sockets) :
    (mounted /\ CloseDue(w)) =>
      LET r == onclose(WithReadyState(State, w, "CLOSED"), w)
      IN /\ ~r.isConnected /\ ~r.isConnecting /\ ~r.isWaitingForResponse
         /\ r.error = error
         /\ r.messages = messages

\* a clean close, with no error pending, of a session that has a transcript
C15_Witness ==
  /\ lastOp = "onclose" /\ Len(sockets) = 1 /\ sockets[1].readyState = "CLOSED"
  /\ error = None /\ Len(messages) = 1
  /\ ~isConnected /\ ~isConnecting /\ ~isWaitingForResponse

\* C16: clearError sets the error value to none and changes nothing else, in
\* every state in which the caller can invoke it.
C16_ClearErrorOnlyClears ==
  Callable => clearError(State) = [State EXCEPT !.error = None]

\* an error record of the peer was dismissed: on the first socket, open and
\* held, only an error record ends the wait with an empty transcript
C16_Witness ==
  /\ lastOp = "clearError" /\ error = None
  /\ Len(sockets) = 1 /\ HeldOpen /\ isConnected
  /\ ~isWaitingForResponse /\ messages = <<>>

\* C17: a pending error is cleared only by clearError or by a connect that
\* starts a fresh session; every other step that changes the error value
\* replaces it by another error.
C17_ErrorNeverSilentlyCleared ==
  [][(error # None /\ error' = None)
       => (Ran("clearError") \/ (Ran("connect") /\ ~HeldOpen))]_vars

\* the peer's error is still shown after a later reply and the close event
C17_Witness ==
  /\ lastOp = "onclose" /\ error = <<"boom">>
  /\ Len(messages) = 1 /\ messages[1].speaker = "parent"

\* C18: the ids of the transcript strictly increase in transcript order, so
\* no two entries share an id.
C18_IdsStrictlyIncrease ==
  \A i, j \in 1..Len(messages) : i < j => messages[i].id < messages[j].id

\* two turns of the caller in a row carry the ids 1 and 2
C18_Witness ==
  /\ Len(messages) = 2
  /\ messages[1].speaker = "doctor" /\ messages[2].speaker = "doctor"
  /\ messages[1].id = 1 /\ messages[2].id = 2

\* C19: every step other than a connect that starts a fresh session leaves
\* the transcript unchanged or extends it by exactly one entry at the end.
C19_TranscriptAppendOnly ==
  [][\/ Ran("connect") /\ ~HeldOpen
     \/ messages' = messages
     \/ /\ Len(messages') = Len(messages) + 1
        /\ SubSeq(messages', 1, Len(messages)) = messages]_vars

\* the counterpart's reply was appended after the caller's turn
C19_Witness ==
  /\ lastOp = "onmessage" /\ Len(sockets) = 1
  /\ messages = <<[id |-> 1, speaker |-> "doctor", text |-> "a"],
                  [id |-> 2, speaker |-> "parent", text |-> "b"]>>

\* C20: in every reachable state at most one socket constructed by the client
\* is CONNECTING or OPEN.
C20_AtMostOneConnection ==
  Cardinality(Live) <= 1

\* C21: session isolation: no open, message, error or close event of a socket
\* the client no longer holds (released by disconnect or superseded by a later
\* connect) changes the transcript, the error value or the three flags.
C21_StaleEventsIgnored ==
  \A w \in 1..Len(sockets) :
    (mounted /\ w # wsRef) =>
      /\ OpenDue(w) => SameSession(onopen(WithReadyState(State, w, "OPEN"), w))
      /\ (closePending = 0 /\ sockets[w].readyState = "OPEN")
           => \A d \in Payloads : SameSession(onmessage(State, w, d))
      /\ ErrorDue(w) => SameSession(onerror(WithReadyState(State, w, "CLOSED"), w))
      /\ CloseDue(w) => SameSession(onclose(WithReadyState(State, w, "CLOSED"), w))

\* C22: there is no timeout on an outstanding reply: while a reply is awaited,
\* connect, clearError, sendMessage, an open event, and a malformed payload, a
\* connected record, an end record or a message record with empty text all
\* leave isWaitingForResponse true; only a counterpart message, a peer error
\* record, an error or close event, or disconnect clears it.
C22_WaitingOnlyEndedByReply ==
  (mounted /\ isWaitingForResponse) =>
    /\ Callable => /\ connect(State).isWaitingForResponse
                   /\ clearError(State).isWaitingForResponse
                   /\ \A text \in Texts : sendMessage(State, text).isWaitingForResponse
    /\ \A w \in 1..Len(sockets) :
         /\ OpenDue(w) => onopen(WithReadyState(State, w, "OPEN"), w).isWaitingForResponse
         /\ sockets[w].readyState = "OPEN"
              => \A d \in {Malformed, Record("connected", None, None), Record("end", None, None),
                           Record("message", Some(""), None)} :
                   onmessage(State, w, d).isWaitingForResponse

\* connect was called while the reply to the caller's turn was awaited, and
\* the reply is still awaited
C22_Witness ==
  /\ lastOp = "connect" /\ isWaitingForResponse /\ HeldOpen
  /\ Len(messages) = 2 /\ messages[2].speaker = "doctor"

\* C27: in every reachable state, isConnected implies that the client holds a
\* socket and that this socket is OPEN.
C27_ConnectedMeansHeldOpen ==
  isConnected => HeldOpen

\* C28: in every reachable state, isConnecting implies that the client holds
\* a socket that is still CONNECTING; in particular isConnecting is false
\* right after disconnect.
C28_ConnectingMeansHandshake ==
  /\ isConnecting => (wsRef # 0 /\ sockets[wsRef].readyState = "CONNECTING")
  /\ lastOp = "disconnect" => ~isConnecting

\* C29: sendMessage called while the client holds no socket, or a socket that
\* is not OPEN, sets the error value to "Not connected to Syrinx", transmits
\* nothing and changes nothing else.
C29_SendWhenNotOpenRejected ==
  (Callable /\ ~HeldOpen) =>
    \A text \in Texts :
      sendMessage(State, text) = [State EXCEPT !.error = <<"Not connected to Syrinx">>]

\* a turn submitted while the handshake was in progress was rejected
C29_Witness ==
  /\ lastOp = "sendMessage" /\ error = Some(ErrNotConnected)
  /\ isConnecting /\ ~isConnected /\ messages = <<>> /\ outbox = <<>>
  /\ Len(sockets) = 1 /\ wsRef = 1 /\ sockets[1].readyState = "CONNECTING"

\* the positions of the entries of xs that pass the filter
KeptAt(Kept(_), xs) == {i \in 1..Len(xs) : Kept(xs[i])}

\* out lists, in input order, exactly the entries of xs at the positions in
\* idx, each under its display name
ListsInOrder(out, xs, idx) ==
  /\ Len(out) = Cardinality(idx)
  /\ \E f \in [1..Len(out) -> idx] :
       /\ \A j, k \in 1..Len(out) : j < k => f[j] < f[k]
       /\ \A k \in 1..Len(out) : out[k][1] = xs[f[k]].display_name

\* C23: for every patient record the allergies, medications and
\* chronic_conditions lists of the built scenario are non-empty, and a list
\* none of whose input entries survives the filter is exactly the one-element
\* placeholder: "None known" for allergies, "None" for the other two.
C23_RostersNeverEmpty ==
  scenario # None =>
    LET out == scenario[1].patient
    IN /\ Len(out.allergies) > 0 /\ Len(out.medications) > 0 /\ Len(out.chronic_conditions) > 0
       /\ KeptAt(AllergyKept, patientData.allergies) = {}
            => out.allergies = << <<"None known">> >>
       /\ KeptAt(MedicationKept, patientData.medications) = {}
            => out.medications = << <<"None">> >>
       /\ KeptAt(ConditionKept, patientData.conditions) = {}
            => out.chronic_conditions = << <<"None">> >>

\* a record with entries in every list, none of which survives the filter
C23_Witness ==
  /\ scenario # None
  /\ Len(patientData.allergies) = 2 /\ Len(patientData.medications) = 2
  /\ Len(patientData.conditions) = 2
  /\ scenario[1].patient.allergies = << <<"None known">> >>
  /\ scenario[1].patient.medications = << <<"None">> >>
  /\ scenario[1].patient.chronic_conditions = << <<"None">> >>

\* C24: the medications of the built scenario are the input medications with
\* status "active" and its conditions the input conditions with
\* clinical_status "active", each in input order; no entry with another
\* status appears.
C24_ActiveOnly ==
  scenario # None =>
    LET out == scenario[1].patient
        meds == patientData.medications
        conds == patientData.conditions
        activeMeds == KeptAt(MedicationKept, meds)
        activeConds == KeptAt(ConditionKept, conds)
    IN /\ activeMeds # {} => ListsInOrder(out.medications, meds, activeMeds)
       /\ activeConds # {} => ListsInOrder(out.chronic_conditions, conds, activeConds)
       /\ \A i \in 1..Len(meds) :
            meds[i].status # "active"
              => \A k \in 1..Len(out.medications) : out.medications[k][1] # meds[i].display_name
       /\ \A i \in 1..Len(conds) :
            conds[i].clinical_status # "active"
              => \A k \in 1..Len(out.chronic_conditions) :
                   out.chronic_conditions[k][1] # conds[i].display_name

\* a stopped medication before an active one, a resolved condition after an
\* active one: only the active entries were listed
C24_Witness ==
  /\ scenario # None
  /\ Len(patientData.medications) = 2
  /\ patientData.medications[1].status = "stopped"
  /\ patientData.medications[2].display_name = "ibuprofen"
  /\ scenario[1].patient.medications = << <<"ibuprofen", "5", "mL", "daily">> >>
  /\ Len(patientData.conditions) = 2
  /\ patientData.conditions[2].clinical_status = "resolved"
  /\ scenario[1].patient.chronic_conditions = << <<"asthma">> >>

\* C25: for a patient younger than one year the age string is "<m> month"
\* when m = 1 and "<m> months" otherwise, m being the days since birth
\* divided by 30 and rounded down, and never a year string; for an older
\* patient it is "<n> year" when n = 1 and "<n> years" otherwise.
C25_AgeRendering ==
  scenario # None =>
    LET p == patientData.patient
        age == scenario[1].patient.age
        m == p.days \div 30
    IN IF p.age_years < 1
       THEN /\ age = <<m, IF m = 1 THEN "month" ELSE "months">>
            /\ age[2] \notin {"year", "years"}
       ELSE age = <<p.age_years, IF p.age_years = 1 THEN "year" ELSE "years">>

\* an infant of 59 days is "1 month" old
C25_Witness ==
  /\ scenario # None
  /\ patientData.patient.age_years = 0 /\ patientData.patient.days = 59
  /\ scenario[1].patient.age = <<1, "month">>
  /\ scenario[1].description[1] = <<1, "month">>

\* C26: when turns reach sendMessage only through handleSubmit, at most one
\* reply is outstanding: the client never transmits a second turn frame
\* before it has handled a message or error record of the peer.
C26_OneOutstandingReply ==
  outstanding <= 1

\* two turns of the caller, each sent after the peer's error record had ended
\* the wait for the previous answer
C26_Witness ==
  /\ lastOp = "handleSubmit" /\ outstanding = 1 /\ isWaitingForResponse
  /\ Len(messages) = 2
  /\ messages[1].speaker = "doctor" /\ messages[2].speaker = "doctor"
  /\ Len(sockets) = 1 /\ sockets[1].sent = <<"init", "message", "message">>

\* C30 (as stated): if the transport stays open and the peer eventually
\* answers every frame it is sent with a message or error record, every state
\* in which a reply is awaited is followed by one in which none is.
C30_WaitingEnds ==
  isWaitingForResponse ~> ~isWaitingForResponse

\* C30 (amended): if the transport stays open and the peer eventually answers
\* every frame it is sent with an error record or a message record whose text
\* is not empty, every state in which a reply is awaited is followed by one in
\* which none is.
C30_WaitingEndsOnRealAnswer ==
  ([]~peer.blank) => (isWaitingForResponse ~> ~isWaitingForResponse)

\* the peer answered the caller's turn and the wait ended
C30_Witness ==
  /\ lastOp = "onmessage" /\ ~isWaitingForResponse /\ ~peer.blank
  /\ Len(sockets) = 1 /\ peer.owed = <<0>>
  /\ messages = <<[id |-> 1, speaker |-> "doctor", text |-> "a"],
                  [id |-> 2, speaker |-> "parent", text |-> "a"]>>

====
